---- MODULE Spec2Model ----
(***************************************************************************)
(* go-hubspot-sdk: the request-dispatch and error layer of the CRM client. *)
(*                                                                         *)
(* One resource call is modelled step by step: the resource method builds  *)
(* a Request, applies the caller's functional options in order, hands the  *)
(* request to the Dispatcher (client.Do), parses the body of a 2xx         *)
(* response into the declared result type, and returns (result, error).   *)
(* The error classifier of the lists package (ParseListError,              *)
(* ParseRecordError) is a pure function; it is an operator here and is     *)
(* also exercised on its own by the specification SpecClassify.            *)
(*                                                                         *)
(* The packages client (Request, Do, HubSpotError), internal/tools and     *)
(* crm/v3/objects (non-test code) are not among the source files; what is  *)
(* modelled of them follows the specification and the tests.               *)
(***************************************************************************)
EXTENDS Integers, Sequences, FiniteSets, TLC

VARIABLES
    pc,      \* position of the call: "idle", "options", "returning", "done"
    call,    \* the caller's arguments: method, identifiers, options, input
    req,     \* the client.Request built by the resource method
    optIdx,  \* index of the next option the `for _, opt := range opts` loop applies
    wire,    \* what the network produced for the request (status + payload)
    resp,    \* the *client.Response returned by Do (Nil on error)
    doErr,   \* the error returned by Do (Nil on success)
    result,  \* the result the resource method returns to the caller
    err,     \* the error the resource method returns to the caller
    cls,     \* the classifier exercised on its own (SpecClassify)
    bat,     \* a batch item error and its rendering (SpecBatchError)
    disp,    \* the dispatcher serving one request (SpecDo)
    lim,     \* the rate limiter shared by concurrent callers (SpecLimiter)
    conc     \* concurrent calls building their requests (SpecConcurrent)

vars == <<pc, call, req, optIdx, wire, resp, doErr, result, err, cls, bat, disp, lim, conc>>

\* the variables of the call machine
callVars == <<pc, call, req, optIdx, wire, resp, doErr, result, err>>

---------------------------------------------------------------------------
(* Bounds of the model *)

\* longest option list a caller passes to one call
MaxOpts == 2
\* most items (results, per-item errors, numErrors) in one response body
MaxItems == 2

---------------------------------------------------------------------------
(* Values *)

\* Go's nil (a nil pointer, a nil slice, a nil error)
Nil == [kind |-> "nil"]

\* returned "result" of a method whose signature has an error only
NoResult == [kind |-> "void"]

\* [1, 2, ..., n]: the items of a response, told apart by position
Items(n) == [i \in 1..n |-> i]

\* strings.Contains
Contains(s, sub) ==
    \E i \in 1..(Len(s) - Len(sub) + 1) : SubSeq(s, i, i + Len(sub) - 1) = sub

\* strings.Join(elems, sep)
RECURSIVE JoinFrom(_, _, _)
JoinFrom(elems, sep, i) ==
    IF i > Len(elems) THEN ""
    ELSE sep \o elems[i] \o JoinFrom(elems, sep, i + 1)

Join(elems, sep) ==
    IF Len(elems) = 0 THEN "" ELSE elems[1] \o JoinFrom(elems, sep, 2)

Digit(d) ==
    CASE d = 0 -> "0" [] d = 1 -> "1" [] d = 2 -> "2" [] d = 3 -> "3"
      [] d = 4 -> "4" [] d = 5 -> "5" [] d = 6 -> "6" [] d = 7 -> "7"
      [] d = 8 -> "8" [] d = 9 -> "9"

\* fmt.Sprintf("%d", n)
RECURSIVE Decimal(_)
Decimal(n) ==
    IF n < 0 THEN "-" \o Decimal(-n)
    ELSE IF n < 10 THEN Digit(n)
    ELSE Decimal(n \div 10) \o Digit(n % 10)

---------------------------------------------------------------------------
(* Errors *)

\* *client.HubSpotError: the structured server error (status, category, message)
HubSpotError(status, category, message) ==
    [kind |-> "HubSpotError", Status |-> status, Category |-> category,
     Message |-> message]

IsHubSpotError(e) == e.kind = "HubSpotError"

\* the error of a call that got no HTTP response
TransportError == [kind |-> "TransportError", text |-> "connection refused"]

\* fmt.Errorf(format, ...) / errors.New(text): an error that is only text
TextError(text) == [kind |-> "errorString", text |-> text]

\* the error json.Unmarshal returns for a body that is not JSON of the type
JSONSyntaxText == "invalid character 'i' looking for beginning of value"

\* the typed variants of crm/v3/lists/errors.go
VariantKinds ==
    {"ListNotFoundError", "ListValidationError", "ListAlreadyExistsError",
     "RecordNotFoundError"}

IsVariant(e) == e.kind \in VariantKinds

ListNotFoundError(listID, original) ==
    [kind |-> "ListNotFoundError", ListID |-> listID, Original |-> original]

ListValidationError(field, message, original) ==
    [kind |-> "ListValidationError", Field |-> field, Message |-> message,
     Original |-> original]

ListAlreadyExistsError(listName, original) ==
    [kind |-> "ListAlreadyExistsError", ListName |-> listName,
     Original |-> original]

RecordNotFoundError(recordID, listID, original) ==
    [kind |-> "RecordNotFoundError", RecordID |-> recordID, ListID |-> listID,
     Original |-> original]

\* Error() of every error value of the model
ErrorText(e) ==
    CASE e.kind = "ListNotFoundError" -> "list " \o e.ListID \o " not found"
      [] e.kind = "ListValidationError" ->
            "validation error on field " \o e.Field \o ": " \o e.Message
      [] e.kind = "ListAlreadyExistsError" ->
            "list with name " \o e.ListName \o " already exists"
      [] e.kind = "RecordNotFoundError" ->
            "record " \o e.RecordID \o " not found in list " \o e.ListID
      [] e.kind = "HubSpotError" -> e.Message
      [] OTHER -> e.text

---------------------------------------------------------------------------
(* Error classifier: crm/v3/lists/errors.go *)

\* ParseListError with the category test of the 400 case left out
ParseListErrorAnyCategory(e, listID) ==
    IF IsHubSpotError(e)
    THEN CASE e.Status = 404 -> ListNotFoundError(listID, e)
           [] e.Status = 400 -> ListValidationError(e.Message, "", e)
           [] e.Status = 409 -> ListAlreadyExistsError("", e)
           [] OTHER -> e
    ELSE e

\* ParseListError that rebuilds the wrapped error from status and message only
ParseListErrorRebuildsOriginal(e, listID) ==
    IF IsHubSpotError(e)
    THEN LET copy == HubSpotError(e.Status, "", e.Message)
         IN  CASE e.Status = 404 -> ListNotFoundError(listID, copy)
               [] e.Status = 400 ->
                    IF e.Category = "VALIDATION_ERROR"
                    THEN ListValidationError(e.Message, "", copy)
                    ELSE e
               [] e.Status = 409 -> ListAlreadyExistsError("", copy)
               [] OTHER -> e
    ELSE e

\* ParseListError that forgets to set Original in the conflict case
ParseListErrorConflictWithoutOriginal(e, listID) ==
    IF IsHubSpotError(e)
    THEN CASE e.Status = 404 -> ListNotFoundError(listID, e)
           [] e.Status = 400 ->
                IF e.Category = "VALIDATION_ERROR"
                THEN ListValidationError(e.Message, "", e)
                ELSE e
           [] e.Status = 409 -> ListAlreadyExistsError("", Nil)
           [] OTHER -> e
    ELSE e

\* ParseListError that wraps what it does not recognise instead of returning it
ParseListErrorWrapsUnknown(e, listID) ==
    IF IsHubSpotError(e)
    THEN CASE e.Status = 404 -> ListNotFoundError(listID, e)
           [] e.Status = 400 ->
                IF e.Category = "VALIDATION_ERROR"
                THEN ListValidationError(e.Message, "", e)
                ELSE e
           [] e.Status = 409 -> ListAlreadyExistsError("", e)
           [] OTHER -> e
    ELSE TextError("list " \o listID \o ": " \o ErrorText(e))

\* ParseListError that swallows a 404 (returns a nil error)
ParseListErrorSwallowsNotFound(e, listID) ==
    IF IsHubSpotError(e)
    THEN CASE e.Status = 404 -> Nil
           [] e.Status = 400 ->
                IF e.Category = "VALIDATION_ERROR"
                THEN ListValidationError(e.Message, "", e)
                ELSE e
           [] e.Status = 409 -> ListAlreadyExistsError("", e)
           [] OTHER -> e
    ELSE e

\* ParseListError(err, listID): the switch on hubspotErr.Status; a 400 whose
\* category is not VALIDATION_ERROR leaves the switch and reaches `return err`
\* a classifier that reports whatever is not a server error as a missing list
ParseListErrorUnknownAsNotFound(e, listID) ==
    IF IsHubSpotError(e)
    THEN CASE e.Status = 404 -> ListNotFoundError(listID, e)
           [] e.Status = 400 ->
                IF e.Category = "VALIDATION_ERROR"
                THEN ListValidationError(e.Message, "", e)
                ELSE e
           [] e.Status = 409 -> ListAlreadyExistsError("", e)
           [] OTHER -> e
    ELSE ListNotFoundError(listID, HubSpotError(404, "", ErrorText(e)))

\* a classifier that puts the server's message in Message and leaves Field
\* empty
ParseListErrorMessageInMessage(e, listID) ==
    IF IsHubSpotError(e)
    THEN CASE e.Status = 404 -> ListNotFoundError(listID, e)
           [] e.Status = 400 ->
                IF e.Category = "VALIDATION_ERROR"
                THEN ListValidationError("", e.Message, e)
                ELSE e
           [] e.Status = 409 -> ListAlreadyExistsError("", e)
           [] OTHER -> e
    ELSE e

ParseListError(e, listID) ==
    IF IsHubSpotError(e)
    THEN CASE e.Status = 404 -> ListNotFoundError(listID, e)
           [] e.Status = 400 ->
                IF e.Category = "VALIDATION_ERROR"
                THEN ListValidationError(e.Message, "", e)
                ELSE e
           [] e.Status = 409 -> ListAlreadyExistsError("", e)
           [] OTHER -> e
    ELSE e

\* a record classifier that leaves every error to the list classifier
ParseRecordErrorAsListError(e, recordID, listID) == ParseListError(e, listID)

\* ParseRecordError(err, recordID, listID)
ParseRecordError(e, recordID, listID) ==
    IF IsHubSpotError(e) /\ e.Status = 404
    THEN RecordNotFoundError(recordID, listID, e)
    ELSE ParseListError(e, listID)

---------------------------------------------------------------------------
(* Request builder: package client *)

\* client.NewRequest(method, path)
NewRequest(method, path) ==
    [Method |-> method, Path |-> path, Query |-> <<>>, Body |-> Nil,
     ResourceType |-> ""]

\* req.WithResourceType(tag)
WithResourceType(r, tag) == [r EXCEPT !.ResourceType = tag]

\* req.WithBody(body)
WithBody(r, body) == [r EXCEPT !.Body = body]

\* req.AddQueryParam(name, value): one value per name, the last write wins
AddQueryParam(r, name, value) ==
    [r EXCEPT !.Query =
        [k \in (DOMAIN r.Query) \cup {name} |->
            IF k = name THEN value ELSE r.Query[k]]]

---------------------------------------------------------------------------
(* Functional options: crm/v3/deals/options.go, crm/v3/companies/options.go *)
(* (the same code), crm/v3/schemas/options.go, crm/v4/associations/         *)
(* options.go and the lists package's options                               *)

WithProperties(properties, r) ==
    AddQueryParam(r, "properties", Join(properties, ","))

WithPropertiesWithHistory(properties, r) ==
    AddQueryParam(r, "propertiesWithHistory", Join(properties, ","))

WithAssociations(associations, r) ==
    AddQueryParam(r, "associations", Join(associations, ","))

\* a limit option that writes its number under the key "offset"
WithLimitUnderOffset(limit, r) == AddQueryParam(r, "offset", Decimal(limit))

WithLimit(limit, r) == AddQueryParam(r, "limit", Decimal(limit))

WithAfter(after, r) == AddQueryParam(r, "after", after)

\* an archived option that flips the flag when it is already set
WithArchivedToggles(r) ==
    IF "archived" \in DOMAIN r.Query /\ r.Query["archived"] = "true"
    THEN AddQueryParam(r, "archived", "false")
    ELSE AddQueryParam(r, "archived", "true")

WithArchived(r) == AddQueryParam(r, "archived", "true")

WithIDProperty(property, r) == AddQueryParam(r, "idProperty", property)

\* an include-filters option that writes the flag either way
WithIncludeFiltersWritesFalse(includeFilters, r) ==
    AddQueryParam(r, "includeFilters",
                  IF includeFilters THEN "true" ELSE "false")

\* lists: WithIncludeFilters(includeFilters)
WithIncludeFilters(includeFilters, r) ==
    IF includeFilters THEN AddQueryParam(r, "includeFilters", "true") ELSE r

\* lists: WithMembershipsLimit(limit)
WithMembershipsLimit(limit, r) == AddQueryParam(r, "limit", Decimal(limit))

\* lists: WithMembershipsOffset(offset)
WithMembershipsOffset(offset, r) == AddQueryParam(r, "offset", offset)

\* an option value: the closure a With... function returns, by name and argument
Opt(name, arg) == [name |-> name, arg |-> arg]

\* opt(req): running the closure
ApplyOption(opt, r) ==
    CASE opt.name = "WithProperties" -> WithProperties(opt.arg, r)
      [] opt.name = "WithPropertiesWithHistory" ->
            WithPropertiesWithHistory(opt.arg, r)
      [] opt.name = "WithAssociations" -> WithAssociations(opt.arg, r)
      [] opt.name = "WithLimit" -> WithLimit(opt.arg, r)
      [] opt.name = "WithAfter" -> WithAfter(opt.arg, r)
      [] opt.name = "WithArchived" -> WithArchived(r)
      [] opt.name = "WithIDProperty" -> WithIDProperty(opt.arg, r)
      [] opt.name = "WithIncludeFilters" -> WithIncludeFilters(opt.arg, r)
      [] opt.name = "WithMembershipsLimit" -> WithMembershipsLimit(opt.arg, r)
      [] opt.name = "WithMembershipsOffset" ->
            WithMembershipsOffset(opt.arg, r)

\* the option values callers pass, per option type
PropertyLists == {<<>>, <<"name">>, <<"name", "industry">>}
Limits == {10, -5}
Cursors == {"c1", "c2"}

ObjectOptions ==
    {Opt("WithProperties", l) : l \in PropertyLists}
    \cup {Opt("WithPropertiesWithHistory", <<"name">>)}
    \cup {Opt("WithAssociations", <<"contacts", "deals">>)}
    \cup {Opt("WithLimit", n) : n \in Limits}
    \cup {Opt("WithAfter", c) : c \in Cursors}
    \cup {Opt("WithArchived", <<>>), Opt("WithIDProperty", "domain")}

OptionsOfType(t) ==
    CASE t \in {"DealOption", "CompanyOption"} -> ObjectOptions
      [] t = "SchemaOption" -> {Opt("WithArchived", <<>>)}
      [] t = "AssociationOption" ->
            {Opt("WithLimit", n) : n \in Limits}
            \cup {Opt("WithAfter", c) : c \in Cursors}
      [] t = "GetListOption" -> {Opt("WithIncludeFilters", b) : b \in BOOLEAN}
      [] t = "ListMembershipsOption" ->
            {Opt("WithMembershipsLimit", n) : n \in Limits}
            \cup {Opt("WithMembershipsOffset", c) : c \in Cursors}
      [] OTHER -> {}

\* all option lists of at most MaxOpts options of one type
OptionLists(t) ==
    UNION {[1..n -> OptionsOfType(t)] : n \in 0..MaxOpts}

---------------------------------------------------------------------------
(* The resource methods.  Each method of a resource client has the same   *)
(* shape; what differs is recorded per method:                             *)
(*   verb, path   arguments of client.NewRequest; path is the fmt.Sprintf  *)
(*                format, Arg(i) standing for the method's i-th string     *)
(*                parameter                                                *)
(*   nargs        number of string parameters of the method                *)
(*   idArg        the parameter that identifies the addressed resource     *)
(*                (0: none)                                                *)
(*   body         what req.WithBody receives ("none": WithBody not called) *)
(*   opts         the option type of the variadic opts parameter           *)
(*   result       shape of the declared result ("void": error only)        *)
(*   decoder      "json": json.Unmarshal, "required": tools.               *)
(*                NewRequiredTagStruct(...).UnmarhsalJSON                   *)
(*   what         the text of the fmt.Errorf that wraps a decoding error   *)
(*   cls          classifier applied to the error of Do ("none": err is    *)
(*                returned as it is)                                       *)
(*   clsArg       parameter passed as listID (0: the literal "")           *)
(*   recArg       parameter passed as recordID (ParseRecordError only)     *)
(*   batch        the endpoint is a batch endpoint (path .../batch/...)    *)

Lit(s) == [lit |-> s]
Arg(i) == [arg |-> i]

Method(pkg, verb, path, nargs, idArg, body, opts, res, decoder, what, classifier, clsArg, recArg, batch) ==
    [pkg |-> pkg, verb |-> verb, path |-> path, nargs |-> nargs,
     idArg |-> idArg, body |-> body, opts |-> opts, result |-> res,
     decoder |-> decoder, what |-> what, cls |-> classifier,
     clsArg |-> clsArg, recArg |-> recArg, batch |-> batch]

CompaniesMethods ==
    {"CreateCompany", "GetCompany", "UpdateCompany", "ArchiveCompany",
     "ListCompanies", "BatchReadCompanies", "BatchCreateCompanies",
     "BatchUpdateCompanies", "BatchArchiveCompanies", "SearchCompanies"}

DealsMethods ==
    {"CreateDeal", "GetDeal", "UpdateDeal", "ArchiveDeal", "ListDeals",
     "BatchReadDeals", "BatchCreateDeals", "BatchUpdateDeals",
     "BatchArchiveDeals", "SearchDeals"}

SchemasMethods ==
    {"GetAllSchemas", "GetExistingSchema", "CreateNewSchema",
     "CreateNewAssociationSchema", "UpdateSchema", "DeleteSchema",
     "RemoveAssociationSchema"}

ListsMethods ==
    {"GetListByID", "GetListByName", "CreateList", "GetListsByIDs",
     "SearchLists", "UpdateListName", "UpdateListFilters", "DeleteList",
     "RestoreList", "GetRecordMemberships", "BatchGetRecordMemberships",
     "AddRecordsToList", "AddFromSourceList", "GetListMemberships",
     "RemoveAllRecords", "RemoveRecordsFromList", "ScheduleConversion",
     "GetConversionSchedule", "DeleteConversionSchedule"}

AssociationsMethods ==
    {"CreateAssociation", "DeleteAssociation", "ListAssociations",
     "BatchCreateAssociations", "BatchDeleteAssociations",
     "GetAssociationLabels"}

ObjectsMethods ==
    {"BatchReadObjects", "BatchCreateObjects", "BatchUpdateObjects",
     "BatchCreateOrUpdateObjects", "BatchArchiveObjects"}

\* crm/v3/companies/client.go
CompaniesMethod(m) ==
    CASE m = "CreateCompany" ->
           Method("companies", "POST",
               <<Lit("/crm/v3/objects/companies")>>,
               0, 0, "input", "none", "object", "json",
               "failed to unmarshal company response", "none", 0, 0, FALSE)
      [] m = "GetCompany" ->
           Method("companies", "GET",
               <<Lit("/crm/v3/objects/companies/"), Arg(1)>>,
               1, 1, "none", "CompanyOption", "object", "json",
               "failed to unmarshal company response", "none", 0, 0, FALSE)
      [] m = "UpdateCompany" ->
           Method("companies", "PATCH",
               <<Lit("/crm/v3/objects/companies/"), Arg(1)>>,
               1, 1, "input", "none", "object", "json",
               "failed to unmarshal company response", "none", 0, 0, FALSE)
      [] m = "ArchiveCompany" ->
           Method("companies", "DELETE",
               <<Lit("/crm/v3/objects/companies/"), Arg(1)>>,
               1, 1, "none", "none", "void", "none",
               "", "none", 0, 0, FALSE)
      [] m = "ListCompanies" ->
           Method("companies", "GET",
               <<Lit("/crm/v3/objects/companies")>>,
               0, 0, "none", "CompanyOption", "list", "json",
               "failed to unmarshal companies list response", "none", 0, 0, FALSE)
      [] m = "BatchReadCompanies" ->
           Method("companies", "POST",
               <<Lit("/crm/v3/objects/companies/batch/read")>>,
               0, 0, "input", "none", "batch", "json",
               "failed to unmarshal batch response", "none", 0, 0, TRUE)
      [] m = "BatchCreateCompanies" ->
           Method("companies", "POST",
               <<Lit("/crm/v3/objects/companies/batch/create")>>,
               0, 0, "input", "none", "batch", "json",
               "failed to unmarshal batch response", "none", 0, 0, TRUE)
      [] m = "BatchUpdateCompanies" ->
           Method("companies", "POST",
               <<Lit("/crm/v3/objects/companies/batch/update")>>,
               0, 0, "input", "none", "batch", "json",
               "failed to unmarshal batch response", "none", 0, 0, TRUE)
      [] m = "BatchArchiveCompanies" ->
           Method("companies", "POST",
               <<Lit("/crm/v3/objects/companies/batch/archive")>>,
               0, 0, "input", "none", "void", "none",
               "", "none", 0, 0, TRUE)
      [] m = "SearchCompanies" ->
           Method("companies", "POST",
               <<Lit("/crm/v3/objects/companies/search")>>,
               0, 0, "input", "none", "list", "json",
               "failed to unmarshal search response", "none", 0, 0, FALSE)

\* crm/v3/deals/client.go
DealsMethod(m) ==
    CASE m = "CreateDeal" ->
           Method("deals", "POST",
               <<Lit("/crm/v3/objects/deals")>>,
               0, 0, "input", "none", "object", "json",
               "failed to unmarshal deal response", "none", 0, 0, FALSE)
      [] m = "GetDeal" ->
           Method("deals", "GET",
               <<Lit("/crm/v3/objects/deals/"), Arg(1)>>,
               1, 1, "none", "DealOption", "object", "json",
               "failed to unmarshal deal response", "none", 0, 0, FALSE)
      [] m = "UpdateDeal" ->
           Method("deals", "PATCH",
               <<Lit("/crm/v3/objects/deals/"), Arg(1)>>,
               1, 1, "input", "none", "object", "json",
               "failed to unmarshal deal response", "none", 0, 0, FALSE)
      [] m = "ArchiveDeal" ->
           Method("deals", "DELETE",
               <<Lit("/crm/v3/objects/deals/"), Arg(1)>>,
               1, 1, "none", "none", "void", "none",
               "", "none", 0, 0, FALSE)
      [] m = "ListDeals" ->
           Method("deals", "GET",
               <<Lit("/crm/v3/objects/deals")>>,
               0, 0, "none", "DealOption", "list", "json",
               "failed to unmarshal deals list response", "none", 0, 0, FALSE)
      [] m = "BatchReadDeals" ->
           Method("deals", "POST",
               <<Lit("/crm/v3/objects/deals/batch/read")>>,
               0, 0, "input", "none", "batch", "json",
               "failed to unmarshal batch response", "none", 0, 0, TRUE)
      [] m = "BatchCreateDeals" ->
           Method("deals", "POST",
               <<Lit("/crm/v3/objects/deals/batch/create")>>,
               0, 0, "input", "none", "batch", "json",
               "failed to unmarshal batch response", "none", 0, 0, TRUE)
      [] m = "BatchUpdateDeals" ->
           Method("deals", "POST",
               <<Lit("/crm/v3/objects/deals/batch/update")>>,
               0, 0, "input", "none", "batch", "json",
               "failed to unmarshal batch response", "none", 0, 0, TRUE)
      [] m = "BatchArchiveDeals" ->
           Method("deals", "POST",
               <<Lit("/crm/v3/objects/deals/batch/archive")>>,
               0, 0, "input", "none", "void", "none",
               "", "none", 0, 0, TRUE)
      [] m = "SearchDeals" ->
           Method("deals", "POST",
               <<Lit("/crm/v3/objects/deals/search")>>,
               0, 0, "input", "none", "list", "json",
               "failed to unmarshal search response", "none", 0, 0, FALSE)

\* crm/v3/schemas/client.go
SchemasMethod(m) ==
    CASE m = "GetAllSchemas" ->
           Method("schemas", "GET",
               <<Lit("/crm-object-schemas/v3/schemas")>>,
               0, 0, "none", "SchemaOption", "schemas", "required",
               "failed to unmarshal schemas response", "none", 0, 0, FALSE)
      [] m = "GetExistingSchema" ->
           Method("schemas", "GET",
               <<Lit("/crm-object-schemas/v3/schemas/"), Arg(1)>>,
               1, 1, "none", "none", "object", "required",
               "failed to unmarshal schema response", "none", 0, 0, FALSE)
      [] m = "CreateNewSchema" ->
           Method("schemas", "POST",
               <<Lit("/crm-object-schemas/v3/schemas")>>,
               0, 0, "none", "none", "object", "required",
               "failed to unmarshal schema response", "none", 0, 0, FALSE)
      [] m = "CreateNewAssociationSchema" ->
           Method("schemas", "POST",
               <<Lit("/crm-object-schemas/v3/schemas/"), Arg(1), Lit("/associations")>>,
               1, 1, "none", "none", "object", "required",
               "failed to unmarshal schema response", "none", 0, 0, FALSE)
      [] m = "UpdateSchema" ->
           Method("schemas", "PATCH",
               <<Lit("/crm-object-schemas/v3/schemas/"), Arg(1)>>,
               1, 1, "none", "none", "object", "required",
               "failed to unmarshal schema response", "none", 0, 0, FALSE)
      [] m = "DeleteSchema" ->
           Method("schemas", "DELETE",
               <<Lit("/crm-object-schemas/v3/schemas/"), Arg(1)>>,
               1, 1, "none", "SchemaOption", "void", "none",
               "", "none", 0, 0, FALSE)
      [] m = "RemoveAssociationSchema" ->
           Method("schemas", "DELETE",
               <<Lit("/crm-object-schemas/v3/schemas/"), Arg(1), Lit("/associations/"), Arg(2)>>,
               2, 1, "none", "none", "void", "none",
               "", "none", 0, 0, FALSE)

\* lists client
ListsMethod(m) ==
    CASE m = "GetListByID" ->
           Method("lists", "GET",
               <<Lit("/crm/v3/lists/"), Arg(1)>>,
               1, 1, "none", "GetListOption", "object", "json",
               "failed to unmarshal list response", "ParseListError", 1, 0, FALSE)
      [] m = "GetListByName" ->
           Method("lists", "GET",
               <<Lit("/crm/v3/lists/object-type-id/"), Arg(1), Lit("/name/"), Arg(2)>>,
               2, 2, "none", "GetListOption", "object", "json",
               "failed to unmarshal list response", "ParseListError", 2, 0, FALSE)
      [] m = "CreateList" ->
           Method("lists", "POST",
               <<Lit("/crm/v3/lists")>>,
               0, 0, "input", "none", "object", "json",
               "failed to unmarshal list response", "ParseListError", 0, 0, FALSE)
      [] m = "GetListsByIDs" ->
           Method("lists", "GET",
               <<Lit("/crm/v3/lists")>>,
               0, 0, "none", "GetListOption", "slice", "json",
               "failed to unmarshal lists response", "ParseListError", 0, 0, FALSE)
      [] m = "SearchLists" ->
           Method("lists", "POST",
               <<Lit("/crm/v3/lists/search")>>,
               0, 0, "input", "none", "list", "json",
               "failed to unmarshal search response", "ParseListError", 0, 0, FALSE)
      [] m = "UpdateListName" ->
           Method("lists", "PUT",
               <<Lit("/crm/v3/lists/"), Arg(1), Lit("/update-list-name")>>,
               2, 1, "none", "none", "object", "json",
               "failed to unmarshal list response", "ParseListError", 1, 0, FALSE)
      [] m = "UpdateListFilters" ->
           Method("lists", "PUT",
               <<Lit("/crm/v3/lists/"), Arg(1), Lit("/update-list-filters")>>,
               1, 1, "filters", "none", "object", "json",
               "failed to unmarshal list response", "ParseListError", 1, 0, FALSE)
      [] m = "DeleteList" ->
           Method("lists", "DELETE",
               <<Lit("/crm/v3/lists/"), Arg(1)>>,
               1, 1, "none", "none", "void", "none",
               "", "ParseListError", 1, 0, FALSE)
      [] m = "RestoreList" ->
           Method("lists", "PUT",
               <<Lit("/crm/v3/lists/"), Arg(1), Lit("/restore")>>,
               1, 1, "none", "none", "void", "none",
               "", "ParseListError", 1, 0, FALSE)
      [] m = "GetRecordMemberships" ->
           Method("lists", "GET",
               <<Lit("/crm/v3/lists/records/"), Arg(1), Lit("/"), Arg(2), Lit("/memberships")>>,
               2, 2, "none", "none", "list", "json",
               "failed to unmarshal memberships response", "ParseRecordError", 0, 2, FALSE)
      [] m = "BatchGetRecordMemberships" ->
           Method("lists", "POST",
               <<Lit("/crm/v3/lists/records/memberships/batch/read")>>,
               0, 0, "inputs", "none", "list", "json",
               "failed to unmarshal batch memberships response", "ParseListError", 0, 0, TRUE)
      [] m = "AddRecordsToList" ->
           Method("lists", "PUT",
               <<Lit("/crm/v3/lists/"), Arg(1), Lit("/memberships/add")>>,
               1, 1, "input", "none", "object", "json",
               "failed to unmarshal membership change response", "ParseListError", 1, 0, FALSE)
      [] m = "AddFromSourceList" ->
           Method("lists", "PUT",
               <<Lit("/crm/v3/lists/"), Arg(1), Lit("/memberships/add-from/"), Arg(2)>>,
               2, 1, "none", "none", "object", "json",
               "failed to unmarshal membership change response", "ParseListError", 1, 0, FALSE)
      [] m = "GetListMemberships" ->
           Method("lists", "GET",
               <<Lit("/crm/v3/lists/"), Arg(1), Lit("/memberships")>>,
               1, 1, "none", "ListMembershipsOption", "list", "json",
               "failed to unmarshal list memberships response", "ParseListError", 1, 0, FALSE)
      [] m = "RemoveAllRecords" ->
           Method("lists", "DELETE",
               <<Lit("/crm/v3/lists/"), Arg(1), Lit("/memberships")>>,
               1, 1, "none", "none", "void", "none",
               "", "ParseListError", 1, 0, FALSE)
      [] m = "RemoveRecordsFromList" ->
           Method("lists", "PUT",
               <<Lit("/crm/v3/lists/"), Arg(1), Lit("/memberships/remove")>>,
               1, 1, "input", "none", "object", "json",
               "failed to unmarshal membership change response", "ParseListError", 1, 0, FALSE)
      [] m = "ScheduleConversion" ->
           Method("lists", "PUT",
               <<Lit("/crm/v3/lists/"), Arg(1), Lit("/schedule-conversion")>>,
               1, 1, "input", "none", "object", "json",
               "failed to unmarshal conversion schedule response", "ParseListError", 1, 0, FALSE)
      [] m = "GetConversionSchedule" ->
           Method("lists", "GET",
               <<Lit("/crm/v3/lists/"), Arg(1), Lit("/schedule-conversion")>>,
               1, 1, "none", "none", "object", "json",
               "failed to unmarshal conversion schedule response", "ParseListError", 1, 0, FALSE)
      [] m = "DeleteConversionSchedule" ->
           Method("lists", "DELETE",
               <<Lit("/crm/v3/lists/"), Arg(1), Lit("/schedule-conversion")>>,
               1, 1, "none", "none", "void", "none",
               "", "ParseListError", 1, 0, FALSE)

\* associations client
AssociationsMethod(m) ==
    CASE m = "CreateAssociation" ->
           Method("associations", "PUT",
               <<Lit("/crm/v4/objects/"), Arg(1), Lit("/"), Arg(2), Lit("/associations/"), Arg(3), Lit("/"), Arg(4)>>,
               4, 2, "input", "none", "object", "json",
               "failed to unmarshal association response", "none", 0, 0, FALSE)
      [] m = "DeleteAssociation" ->
           Method("associations", "DELETE",
               <<Lit("/crm/v4/objects/"), Arg(1), Lit("/"), Arg(2), Lit("/associations/"), Arg(3), Lit("/"), Arg(4)>>,
               4, 2, "input", "none", "void", "none",
               "", "none", 0, 0, FALSE)
      [] m = "ListAssociations" ->
           Method("associations", "GET",
               <<Lit("/crm/v4/objects/"), Arg(1), Lit("/"), Arg(2), Lit("/associations/"), Arg(3)>>,
               3, 2, "none", "AssociationOption", "list", "json",
               "failed to unmarshal associations response", "none", 0, 0, FALSE)
      [] m = "BatchCreateAssociations" ->
           Method("associations", "POST",
               <<Lit("/crm/v4/associations/"), Arg(1), Lit("/"), Arg(2), Lit("/batch/create")>>,
               2, 0, "input", "none", "void", "none",
               "", "none", 0, 0, TRUE)
      [] m = "BatchDeleteAssociations" ->
           Method("associations", "POST",
               <<Lit("/crm/v4/associations/"), Arg(1), Lit("/"), Arg(2), Lit("/batch/archive")>>,
               2, 0, "input", "none", "void", "none",
               "", "none", 0, 0, TRUE)
      [] m = "GetAssociationLabels" ->
           Method("associations", "GET",
               <<Lit("/crm/v4/associations/"), Arg(1), Lit("/"), Arg(2), Lit("/labels")>>,
               2, 0, "none", "none", "list", "json",
               "failed to unmarshal labels response", "none", 0, 0, FALSE)

\* crm/v3/objects (batch methods, from client_test.go)
ObjectsMethod(m) ==
    CASE m = "BatchReadObjects" ->
           Method("objects", "POST",
               <<Lit("/crm/v3/objects/"), Arg(1), Lit("/batch/read")>>,
               1, 0, "input", "none", "batchFull", "json",
               "failed to unmarshal batch response", "none", 0, 0, TRUE)
      [] m = "BatchCreateObjects" ->
           Method("objects", "POST",
               <<Lit("/crm/v3/objects/"), Arg(1), Lit("/batch/create")>>,
               1, 0, "input", "none", "batchFull", "json",
               "failed to ubmarshal batch response", "none", 0, 0, TRUE)
      [] m = "BatchUpdateObjects" ->
           Method("objects", "POST",
               <<Lit("/crm/v3/objects/"), Arg(1), Lit("/batch/update")>>,
               1, 0, "input", "none", "batchFull", "json",
               "failed to ubmarshal batch response", "none", 0, 0, TRUE)
      [] m = "BatchCreateOrUpdateObjects" ->
           Method("objects", "POST",
               <<Lit("/crm/v3/objects/"), Arg(1), Lit("/batch/upsert")>>,
               1, 0, "input", "none", "batchFull", "json",
               "failed to ubmarshal batch response", "none", 0, 0, TRUE)
      [] m = "BatchArchiveObjects" ->
           Method("objects", "POST",
               <<Lit("/crm/v3/objects/"), Arg(1), Lit("/batch/archive")>>,
               1, 0, "input", "none", "batchFull", "json",
               "failed to ubmarshal batch response", "none", 0, 0, TRUE)

MethodNames ==
    CompaniesMethods \cup DealsMethods \cup SchemasMethods \cup ListsMethods
    \cup AssociationsMethods \cup ObjectsMethods

MethodOf(m) ==
    CASE m \in CompaniesMethods -> CompaniesMethod(m)
      [] m \in DealsMethods -> DealsMethod(m)
      [] m \in SchemasMethods -> SchemasMethod(m)
      [] m \in ListsMethods -> ListsMethod(m)
      [] m \in AssociationsMethods -> AssociationsMethod(m)
      [] m \in ObjectsMethods -> ObjectsMethod(m)

---------------------------------------------------------------------------
(* The caller's side of a call *)

\* identifiers and names callers pass as string parameters
ArgValues == {"42", "7"}

\* payloads callers pass as input
Inputs == {[payload |-> "p1"], [payload |-> "p2"]}

\* the methods that take an input parameter
TakesInput(m) ==
    \/ MethodOf(m).body # "none"
    \/ m \in {"CreateNewSchema", "CreateNewAssociationSchema", "UpdateSchema"}

\* all sequences over S of length at most n
SeqsUpTo(S, n) == UNION {[1..k -> S] : k \in 0..n}

\* the calls a caller can make of method m
Calls(m) ==
    [m : {m},
     args : [1..MethodOf(m).nargs -> ArgValues],
     listIDs : IF m = "GetListsByIDs" THEN SeqsUpTo(ArgValues, MaxItems)
               ELSE {<<>>},
     includeFilters : IF m \in {"UpdateListName", "UpdateListFilters"}
                      THEN BOOLEAN ELSE {FALSE},
     input : IF TakesInput(m) THEN Inputs ELSE {Nil},
     opts : OptionLists(MethodOf(m).opts)]

---------------------------------------------------------------------------
(* A resource method, up to the call of Do *)

\* fmt.Sprintf(format, args...) of a path format
RECURSIVE SprintfFrom(_, _, _)
SprintfFrom(path, args, i) ==
    IF i > Len(path) THEN ""
    ELSE (IF "lit" \in DOMAIN path[i] THEN path[i].lit ELSE args[path[i].arg])
         \o SprintfFrom(path, args, i + 1)

Sprintf(path, args) == SprintfFrom(path, args, 1)

\* the value handed to req.WithBody
BodyOf(c) ==
    LET d == MethodOf(c.m)
    IN  CASE d.body = "input" -> c.input
          [] d.body = "inputs" -> [Inputs |-> c.input]
          [] d.body = "filters" ->
                IF c.includeFilters
                THEN [filterBranch |-> c.input, includeFilters |-> TRUE]
                ELSE [filterBranch |-> c.input]
          [] OTHER -> Nil

\* GetListsByIDs: for _, id := range listIDs { req.AddQueryParam("listIds", id) }
RECURSIVE AddListIDs(_, _, _)
AddListIDs(r, listIDs, i) ==
    IF i > Len(listIDs) THEN r
    ELSE AddListIDs(AddQueryParam(r, "listIds", listIDs[i]), listIDs, i + 1)

\* the query parameters a method writes itself, before the options
OwnQueryParams(c, r) ==
    CASE c.m = "GetListsByIDs" -> AddListIDs(r, c.listIDs, 1)
      [] c.m = "UpdateListName" ->
            LET r1 == AddQueryParam(r, "listName", c.args[2])
            IN  IF c.includeFilters
                THEN AddQueryParam(r1, "includeFilters", "true")
                ELSE r1
      [] OTHER -> r

\* the head of every resource method: NewRequest, WithResourceType, WithBody
BuildRequest(c) ==
    LET d  == MethodOf(c.m)
        r0 == WithResourceType(NewRequest(d.verb, Sprintf(d.path, c.args)),
                               d.pkg)
        r1 == IF d.body # "none" THEN WithBody(r0, BodyOf(c)) ELSE r0
    IN  OwnQueryParams(c, r1)

\* a loop over the options that runs from the last to the first
RangeOptsReversed(opts, i) == opts[Len(opts) + 1 - i]

\* for _, opt := range opts: the option of the i-th iteration
RangeOpts(opts, i) == opts[i]

---------------------------------------------------------------------------
(* What the server answers, and what Do makes of it *)

\* a response body: undecodable text, the empty object {}, or a payload
InvalidBody == [json |-> "invalid"]
EmptyBody == [json |-> "empty"]
DataBody(status, n, numErrors, nerr) ==
    [json |-> "data", status |-> status, results |-> Items(n),
     numErrors |-> numErrors, errors |-> Items(nerr)]

BatchStatuses == {"COMPLETE", "PENDING"}

\* the 2xx bodies the endpoint of method m can answer with
Bodies(m) ==
    LET d == MethodOf(m)
    IN  {InvalidBody, EmptyBody} \cup
        (IF d.batch
         THEN {DataBody(s, n, k, k) :
                   s \in BatchStatuses, n \in 0..MaxItems, k \in 0..MaxItems}
         ELSE IF d.result \in {"list", "slice", "schemas"}
         THEN {DataBody("", n, 0, 0) : n \in 0..MaxItems}
         ELSE {DataBody("", 0, 0, 0)})

Categories == {"", "VALIDATION_ERROR", "OBJECT_NOT_FOUND"}
Messages == {"", "name"}
ErrorStatuses == {400, 404, 409, 500}
SuccessStatuses == {200, 201}

\* what can happen to the request of method m on the wire
Outcomes(m) ==
    {[kind |-> "transport"]}
    \cup {[kind |-> "http", status |-> s, category |-> c, message |-> msg,
           body |-> Nil] :
             s \in ErrorStatuses, c \in Categories, msg \in Messages}
    \cup {[kind |-> "http", status |-> s, category |-> "", message |-> "",
           body |-> b] : s \in SuccessStatuses, b \in Bodies(m)}

Is2xx(status) == status >= 200 /\ status < 300

\* the dispatcher: (response, error) for an outcome on the wire
Do(w) ==
    IF w.kind = "transport"
    THEN [resp |-> Nil, err |-> TransportError]
    ELSE IF Is2xx(w.status)
    THEN [resp |-> [StatusCode |-> w.status, Body |-> w.body], err |-> Nil]
    ELSE [resp |-> Nil,
          err |-> HubSpotError(w.status, w.category, w.message)]

---------------------------------------------------------------------------
(* A resource method, after the call of Do *)

\* json.Unmarshal(resp.Body, &v) succeeds
Unmarshal(body) == body.json # "invalid"

\* tools.NewRequiredTagStruct(&v).UnmarhsalJSON(resp.Body) succeeds
RequiredUnmarshal(body) == body.json = "data"

\* a batch response type whose errors member is never filled
DecodedBatchResponseWithoutErrors(body) ==
    LET has == body.json = "data"
    IN  [kind |-> "batchFull",
         Status |-> IF has THEN body.status ELSE "",
         Results |-> IF has THEN body.results ELSE Nil,
         NumErrors |-> IF has THEN body.numErrors ELSE 0,
         Errors |-> <<>>]

\* the objects client's batch response, decoded from the body: status,
\* results, numErrors and errors, each absent member left at its zero value
\* (for errors the empty list: only its length is looked at)
DecodedBatchResponse(body) ==
    LET has == body.json = "data"
    IN  [kind |-> "batchFull",
         Status |-> IF has THEN body.status ELSE "",
         Results |-> IF has THEN body.results ELSE Nil,
         NumErrors |-> IF has THEN body.numErrors ELSE 0,
         Errors |-> IF has THEN body.errors ELSE <<>>]

\* the value the result variable holds after decoding. json.Unmarshal gets a
\* pointer to the variable and fills it; tools.NewRequiredTagStruct gets the
\* variable by value, so the variable keeps its zero value
Decoded(d, body) ==
    LET has == body.json = "data" /\ d.decoder # "required"
    IN  CASE d.result = "object" -> [kind |-> "object", filled |-> has]
          [] d.result = "list" ->
                [kind |-> "list",
                 Results |-> IF has THEN body.results ELSE Nil]
          [] d.result = "schemas" ->
                [kind |-> "schemas",
                 Results |-> IF has THEN body.results ELSE <<>>]
          [] d.result = "slice" -> IF has THEN body.results ELSE Nil
          [] d.result = "batch" ->
                [kind |-> "batch",
                 Status |-> IF has THEN body.status ELSE "",
                 Results |-> IF has THEN body.results ELSE Nil]
          [] d.result = "batchFull" -> DecodedBatchResponse(body)
          [] OTHER -> NoResult

\* a lists method that hands the classifier its first parameter, whatever
\* the method
ListIDArgFirst(c) == IF MethodOf(c.m).nargs > 0 THEN c.args[1] ELSE ""

\* the identifier a lists method hands to the classifier
ListIDArg(c) ==
    LET d == MethodOf(c.m)
    IN  IF d.clsArg = 0 THEN "" ELSE c.args[d.clsArg]

\* a method that returns Do's error as text only: fmt.Errorf("%v", err)
ReturnedErrorAsText(c, e) == TextError(ErrorText(e))

\* if err != nil { return ... }: the error a method returns for Do's error
ReturnedError(c, e) ==
    LET d == MethodOf(c.m)
    IN  CASE d.cls = "ParseListError" -> ParseListError(e, ListIDArg(c))
          [] d.cls = "ParseRecordError" ->
                ParseRecordError(e, c.args[d.recArg], ListIDArg(c))
          [] OTHER -> e

\* fmt.Errorf("<what>: %w", err) for a decoder error
ParseError(d) == TextError(d.what \o ": " \o JSONSyntaxText)

\* the emptiness check of GetAllSchemas made by every list call
NoResultsFound(d, v) ==
    d.result \in {"schemas", "list"} /\ Len(v.Results) = 0

\* GetAllSchemas: if len(schemas.Results) == 0
NoSchemasFound(d, v) == d.result = "schemas" /\ Len(v.Results) = 0

\* the objects client's batch calls: the result reports failed items
BatchHasErrors(d, v) == d.result = "batchFull" /\ v.NumErrors > 0

BatchPartialError(v) ==
    [kind |-> "BatchPartialError", NumErrors |-> v.NumErrors]

\* a method's return values (result, error) given what Do returned
MethodReturn(c, rsp, e) ==
    LET d  == MethodOf(c.m)
        ok == IF d.decoder = "required" THEN RequiredUnmarshal(rsp.Body)
              ELSE Unmarshal(rsp.Body)
        v  == Decoded(d, rsp.Body)
    IN  IF e # Nil
        THEN [result |-> IF d.result = "void" THEN NoResult ELSE Nil,
              err |-> ReturnedError(c, e)]
        ELSE IF d.result = "void"
        THEN [result |-> NoResult, err |-> Nil]
        ELSE IF ~ok
        THEN [result |-> Nil, err |-> ParseError(d)]
        ELSE IF NoSchemasFound(d, v)
        THEN [result |-> v, err |-> TextError("no schemas found")]
        ELSE IF BatchHasErrors(d, v)
        THEN [result |-> v, err |-> BatchPartialError(v)]
        ELSE [result |-> v, err |-> Nil]

---------------------------------------------------------------------------
(* The call machine: one call of a resource method at a time *)

Idle ==
    /\ pc = "idle"
    /\ call = Nil
    /\ req = Nil
    /\ optIdx = 0
    /\ wire = Nil
    /\ resp = Nil
    /\ doErr = Nil
    /\ result = Nil
    /\ err = Nil

Init == Idle /\ cls = Nil /\ bat = Nil /\ disp = Nil /\ lim = Nil /\ conc = Nil

\* the caller enters a method; the method builds its request
Start ==
    /\ pc = "idle"
    /\ \E m \in MethodNames : \E c \in Calls(m) :
          /\ call' = c
          /\ req' = BuildRequest(c)
    /\ optIdx' = 1
    /\ pc' = "options"
    /\ UNCHANGED <<wire, resp, doErr, result, err, cls, bat, disp, lim, conc>>

\* one iteration of for _, opt := range opts { opt(req) }
ApplyNextOption ==
    /\ pc = "options"
    /\ optIdx <= Len(call.opts)
    /\ req' = ApplyOption(RangeOpts(call.opts, optIdx), req)
    /\ optIdx' = optIdx + 1
    /\ UNCHANGED <<pc, call, wire, resp, doErr, result, err, cls, bat, disp, lim, conc>>

\* a loop that may stop after its first iteration
RangeDoneEarly(opts, i) == i > Len(opts) \/ i > 1

\* for _, opt := range opts: no iteration is left
RangeDone(opts, i) == i > Len(opts)

\* the loop is over; c.apiClient.Do(ctx, req)
Dispatch ==
    /\ pc = "options"
    /\ RangeDone(call.opts, optIdx)
    /\ \E w \in Outcomes(call.m) :
          /\ wire' = w
          /\ resp' = Do(w).resp
          /\ doErr' = Do(w).err
    /\ pc' = "returning"
    /\ UNCHANGED <<call, req, optIdx, result, err, cls, bat, disp, lim, conc>>

\* the rest of the method: error check, decoding, return
Return ==
    /\ pc = "returning"
    /\ result' = MethodReturn(call, resp, doErr).result
    /\ err' = MethodReturn(call, resp, doErr).err
    /\ pc' = "done"
    /\ UNCHANGED <<call, req, optIdx, wire, resp, doErr, cls, bat, disp, lim, conc>>

\* the caller has its answer and may call again
Reset ==
    /\ pc = "done"
    /\ pc' = "idle"
    /\ call' = Nil
    /\ req' = Nil
    /\ optIdx' = 0
    /\ wire' = Nil
    /\ resp' = Nil
    /\ doErr' = Nil
    /\ result' = Nil
    /\ err' = Nil
    /\ UNCHANGED <<cls, bat, disp, lim, conc>>

Next ==
    \/ Start
    \/ ApplyNextOption
    \/ Dispatch
    \/ Return
    \/ Reset

Spec == Init /\ [][Next]_vars

---------------------------------------------------------------------------
(* The classifier on its own: ParseListError and ParseRecordError applied  *)
(* to any error a caller can hand them                                     *)

\* the errors handed to the classifier
ClassifierInputs ==
    {HubSpotError(s, c, msg) :
         s \in ErrorStatuses \cup {429}, c \in Categories, msg \in Messages}
    \cup {TransportError, TextError("context canceled"),
          ListNotFoundError("42", HubSpotError(404, "", ""))}

InitClassify ==
    /\ Idle
    /\ bat = Nil
    /\ disp = Nil
    /\ lim = Nil
    /\ conc = Nil
    /\ cls \in [pc : {"ready"}, in : ClassifierInputs,
                recordID : ArgValues \cup {""}, listID : ArgValues \cup {""},
                fn : {""}, out : {Nil}, out2 : {Nil}]

\* out := ParseListError(in, listID)
ClassifyList ==
    /\ cls.pc = "ready"
    /\ cls' = [cls EXCEPT !.pc = "classified", !.fn = "ParseListError",
                          !.out = ParseListError(cls.in, cls.listID)]
    /\ UNCHANGED <<callVars, bat, disp, lim, conc>>

\* out := ParseRecordError(in, recordID, listID)
ClassifyRecord ==
    /\ cls.pc = "ready"
    /\ cls' = [cls EXCEPT !.pc = "classified", !.fn = "ParseRecordError",
                          !.out = ParseRecordError(cls.in, cls.recordID,
                                                   cls.listID)]
    /\ UNCHANGED <<callVars, bat, disp, lim, conc>>

\* the caller unwraps a typed variant and classifies its Original again,
\* with the same identifiers
Reclassify ==
    /\ cls.pc = "classified"
    /\ IsHubSpotError(cls.in)
    /\ IsVariant(cls.out)
    /\ cls' = [cls EXCEPT
                 !.pc = "reclassified",
                 !.out2 = IF cls.fn = "ParseListError"
                          THEN ParseListError(cls.out.Original, cls.listID)
                          ELSE ParseRecordError(cls.out.Original,
                                                cls.recordID, cls.listID)]
    /\ UNCHANGED <<callVars, bat, disp, lim, conc>>

NextClassify ==
    \/ ClassifyList
    \/ ClassifyRecord
    \/ Reclassify

SpecClassify == InitClassify /\ [][NextClassify]_vars

---------------------------------------------------------------------------
(* Properties *)

\* the call has returned
Returned == pc = "done"

\* the server answered with a status outside 2xx
Non2xx == wire # Nil /\ wire.kind = "http" /\ ~Is2xx(wire.status)

\* the server answered 2xx
Got2xx == wire # Nil /\ wire.kind = "http" /\ Is2xx(wire.status)

\* the call returned a result the caller can use
HasResult == result # Nil /\ result # NoResult

\* the server error an error is or wraps
Underlying(e) == IF IsVariant(e) THEN e.Original ELSE e

IsNotFound(e) == e.kind \in {"ListNotFoundError", "RecordNotFoundError"}

\* the identifier a NotFound variant names as missing
MissingID(e) == IF e.kind = "RecordNotFoundError" THEN e.RecordID ELSE e.ListID

\* the query an option writes when applied to a fresh request: empty, or
\* one key with its value
Written(opt) == ApplyOption(opt, NewRequest("GET", "/")).Query

\* option i is the last option of the call that writes key k
LastWriter(i, k) ==
    /\ k \in DOMAIN Written(call.opts[i])
    /\ \A j \in (i + 1)..Len(call.opts) : k \notin DOMAIN Written(call.opts[j])

\* every option of the call has been applied
OptionsApplied == pc \in {"options", "returning", "done"}
                  /\ optIdx > Len(call.opts)

(* C1: every batch call whose response reports numErrors > 0 returns a     *)
(* non-nil error together with the full, non-nil result, even though the   *)
(* HTTP status is 200 and the batch status is COMPLETE.                    *)
BatchErrorsAreReported ==
    (/\ Returned
     /\ MethodOf(call.m).batch
     /\ Got2xx
     /\ wire.body.json = "data"
     /\ wire.body.numErrors > 0)
    => err # Nil /\ HasResult

(* C2: the classifier turns a server error into a variant by its status    *)
(* and category: 404 gives the NotFound variant, 400 with category         *)
(* VALIDATION_ERROR the Validation variant, 400 with any other category    *)
(* the input error, 409 the AlreadyExists variant, and any other status    *)
(* the input error.                                                        *)
ClassifierFollowsTable ==
    (cls.pc = "classified" /\ IsHubSpotError(cls.in)) =>
        CASE cls.in.Status = 404 ->
                cls.out.kind = IF cls.fn = "ParseRecordError"
                               THEN "RecordNotFoundError"
                               ELSE "ListNotFoundError"
          [] cls.in.Status = 400 /\ cls.in.Category = "VALIDATION_ERROR" ->
                cls.out.kind = "ListValidationError"
          [] cls.in.Status = 400 /\ cls.in.Category # "VALIDATION_ERROR" ->
                cls.out = cls.in
          [] cls.in.Status = 409 -> cls.out.kind = "ListAlreadyExistsError"
          [] OTHER -> cls.out = cls.in

\* a 400 whose category is not VALIDATION_ERROR came back as it went in
BadRequestOtherCategoryClassified ==
    /\ cls.pc = "classified"
    /\ IsHubSpotError(cls.in)
    /\ cls.in.Status = 400
    /\ cls.in.Category = "OBJECT_NOT_FOUND"
    /\ cls.out = cls.in

(* C3: once the options of a call have been applied in the caller's order, *)
(* the query map holds for every key an option wrote exactly the value     *)
(* written by the last option that wrote that key.                         *)
LastOptionWins ==
    OptionsApplied =>
        \A i \in 1..Len(call.opts) : \A k \in DOMAIN Written(call.opts[i]) :
            LastWriter(i, k) =>
                /\ k \in DOMAIN req.Query
                /\ req.Query[k] = Written(call.opts[i])[k]

\* two options wrote different values under one key, and the later one's
\* value is in the query
LaterOptionOverrode ==
    /\ OptionsApplied
    /\ \E i, j \in 1..Len(call.opts) : \E k \in DOMAIN Written(call.opts[i]) :
          /\ i < j
          /\ k \in DOMAIN Written(call.opts[j])
          /\ Written(call.opts[i])[k] # Written(call.opts[j])[k]
          /\ req.Query[k] = Written(call.opts[j])[k]

(* C4: a 2xx response whose body does not decode into the expected         *)
(* envelope gives a nil result and a non-nil parse error whose text        *)
(* contains "failed to unmarshal"; no call returns a nil result together   *)
(* with a nil error.                                                       *)
UndecodableBodyGivesParseError ==
    Returned =>
        /\ (/\ Got2xx
            /\ MethodOf(call.m).result # "void"
            /\ wire.body.json = "invalid")
           => /\ result = Nil
              /\ err # Nil
              /\ Contains(ErrorText(err), "failed to unmarshal")
        /\ ~(result = Nil /\ err = Nil)

(* C5: every call answered with a status outside 2xx returns a non-nil     *)
(* error and no result.                                                    *)
Non2xxIsNeverSuccess ==
    (Returned /\ Non2xx) => err # Nil /\ ~HasResult

\* a lists read answered 404 has returned its NotFound error and no result
NotFoundReturnedAsError ==
    /\ Returned
    /\ call.m = "GetListByID"
    /\ Non2xx
    /\ wire.status = 404
    /\ err.kind = "ListNotFoundError"
    /\ result = Nil

(* C6: for a call answered with a status outside 2xx, the server error the *)
(* call returns, directly or as the Original of a typed variant, has the   *)
(* HTTP status of the response as its status and the category of the       *)
(* error payload as its category.                                          *)
ErrorKeepsStatusAndCategory ==
    (Returned /\ Non2xx) =>
        /\ err # Nil
        /\ IsHubSpotError(Underlying(err))
        /\ Underlying(err).Status = wire.status
        /\ Underlying(err).Category = wire.category

\* a validation failure came back as a typed variant around the server error
ValidationVariantReturned ==
    /\ Returned
    /\ Non2xx
    /\ wire.status = 400
    /\ wire.category = "VALIDATION_ERROR"
    /\ err.kind = "ListValidationError"
    /\ err.Original.Category = "VALIDATION_ERROR"

\* the call reads the thing one of its parameters identifies
ReadByID == MethodOf(call.m).verb = "GET" /\ MethodOf(call.m).idArg > 0

\* the identifier the call was addressed to
RequestedID == call.args[MethodOf(call.m).idArg]

ReadAnswered404 == Returned /\ ReadByID /\ Non2xx /\ wire.status = 404

VariantWrapsOriginal ==
    (/\ cls.pc = "classified"
     /\ IsHubSpotError(cls.in)
     /\ IsVariant(cls.out))
    => cls.out.Original = cls.in

\* a conflict was classified, and the variant holds the server error
ConflictWrapsOriginal ==
    /\ cls.pc = "classified"
    /\ IsHubSpotError(cls.in)
    /\ cls.in.Status = 409
    /\ cls.out.kind = "ListAlreadyExistsError"
    /\ cls.out.Original = cls.in

(* C9: an error that is not a server error comes out of the classifier     *)
(* unchanged, whatever identifiers are passed with it.                     *)
NonServerErrorPassesThrough ==
    (cls.pc = "classified" /\ ~IsHubSpotError(cls.in)) => cls.out = cls.in

\* a transport failure went through the classifier with identifiers set
TransportErrorPassedThrough ==
    /\ cls.pc = "classified"
    /\ cls.in = TransportError
    /\ cls.listID # ""
    /\ cls.recordID # ""
    /\ cls.out = TransportError

(* C10: classifying the Original of a classified server error again, with  *)
(* the same identifiers, yields the same result: same kind, same           *)
(* identifier fields, same Original.                                       *)
ClassifierIsStable ==
    cls.pc = "reclassified" => cls.out2 = cls.out

\* a validation variant was unwrapped and classified again
ValidationReclassified ==
    /\ cls.pc = "reclassified"
    /\ cls.out.kind = "ListValidationError"
    /\ cls.out2.kind = "ListValidationError"
    /\ cls.out2.Original = cls.in

---------------------------------------------------------------------------
(* Batch item errors: objects.BatchError and its rendering to text *)

\* objects.ObjectError: one sub-error of a batch item error
ObjectError(message) == [Message |-> message]

\* objects.BatchError
BatchError(message, category, errors) ==
    [kind |-> "BatchError", Message |-> message, Category |-> category,
     Status |-> "error", Errors |-> errors]

\* the messages of the sub-errors, in order
SubMessages(e) == [i \in 1..Len(e.Errors) |-> e.Errors[i].Message]

\* a rendering that lists every sub-error also when there is no message
BatchErrorTextAllSubErrors(e) ==
    IF Len(e.Errors) > 0
    THEN (IF e.Message # "" THEN e.Message ELSE "batch error")
         \o ": " \o Join(SubMessages(e), "; ")
    ELSE IF e.Message # "" THEN e.Message ELSE "batch error"

\* (*BatchError).Error()
BatchErrorText(e) ==
    IF e.Message # ""
    THEN IF Len(e.Errors) > 0
         THEN e.Message \o ": " \o Join(SubMessages(e), "; ")
         ELSE e.Message
    ELSE IF Len(e.Errors) > 0
         THEN "batch error: " \o e.Errors[1].Message
         ELSE "batch error"

\* the batch item errors handed to the rendering
BatchMessages == {"", "Batch operation failed", "Multiple errors occurred"}
BatchCategories == {"BATCH_ERROR", "VALIDATION_ERROR"}
ObjectErrors ==
    {ObjectError(msg) :
        msg \in {"Object 1 not found", "Object 2 validation error", ""}}
BatchErrors ==
    {BatchError(msg, c, errs) :
        msg \in BatchMessages, c \in BatchCategories,
        errs \in SeqsUpTo(ObjectErrors, MaxItems)}

InitBatchError ==
    /\ Idle
    /\ cls = Nil
    /\ disp = Nil
    /\ lim = Nil
    /\ conc = Nil
    /\ bat \in [pc : {"ready"}, in : BatchErrors, text : {""}]

\* text := e.Error()
RenderBatchError ==
    /\ bat.pc = "ready"
    /\ bat' = [bat EXCEPT !.pc = "rendered", !.text = BatchErrorText(bat.in)]
    /\ UNCHANGED <<callVars, cls, disp, lim, conc>>

NextBatchError == RenderBatchError

SpecBatchError == InitBatchError /\ [][NextBatchError]_vars

(* C11: rendering a batch item error to text gives the message, ": " and   *)
(* all sub-error messages joined by "; " when there are a message and      *)
(* sub-errors; just the message when there are no sub-errors; "batch       *)
(* error: " and the first sub-error's message when there is no message     *)
(* but there are sub-errors; and "batch error" when there is neither.      *)
BatchErrorRendering ==
    bat.pc = "rendered" =>
        LET e == bat.in
            n == Len(e.Errors)
        IN  CASE e.Message # "" /\ n > 0 ->
                    bat.text = e.Message \o ": " \o Join(SubMessages(e), "; ")
              [] e.Message # "" /\ n = 0 -> bat.text = e.Message
              [] e.Message = "" /\ n > 0 ->
                    bat.text = "batch error: " \o e.Errors[1].Message
              [] OTHER -> bat.text = "batch error"

\* a message with two sub-errors was rendered as one line
MessageAndSubErrorsRendered ==
    /\ bat.pc = "rendered"
    /\ bat.in.Message = "Batch operation failed"
    /\ Len(bat.in.Errors) = 2
    /\ bat.text = "Batch operation failed: Object 1 not found; "
                  \o "Object 2 validation error"

(* C12: when the 'get all schemas' call receives a 2xx response with an    *)
(* empty results list it returns a non-nil error containing "no schemas    *)
(* found" together with the non-nil (empty) parsed response; with a        *)
(* non-empty results list it returns the parsed response and a nil error.  *)
GetAllSchemasReportsEmptyOnly ==
    (/\ Returned
     /\ call.m = "GetAllSchemas"
     /\ Got2xx
     /\ wire.body.json = "data")
    => IF Len(wire.body.results) = 0
       THEN /\ err # Nil
            /\ Contains(ErrorText(err), "no schemas found")
            /\ HasResult
            /\ result.Results = <<>>
       ELSE /\ err = Nil
            /\ HasResult
            /\ result.Results = wire.body.results

\* the call returns a sequence of items: a list envelope or a plain slice,
\* but not the 'get all schemas' call
OrdinaryListCall == MethodOf(call.m).result \in {"list", "slice"}

\* the sequence a list call handed to its caller
ReturnedItems == IF MethodOf(call.m).result = "slice" THEN result
                 ELSE result.Results

RecognizedOptions ==
    {"WithProperties", "WithPropertiesWithHistory", "WithAssociations",
     "WithLimit", "WithAfter", "WithIDProperty", "WithArchived"}

StatedKey(opt) ==
    CASE opt.name = "WithProperties" -> "properties"
      [] opt.name = "WithPropertiesWithHistory" -> "propertiesWithHistory"
      [] opt.name = "WithAssociations" -> "associations"
      [] opt.name = "WithLimit" -> "limit"
      [] opt.name = "WithAfter" -> "after"
      [] opt.name = "WithIDProperty" -> "idProperty"
      [] opt.name = "WithArchived" -> "archived"

StatedValue(opt) ==
    CASE opt.name \in {"WithProperties", "WithPropertiesWithHistory",
                       "WithAssociations"} -> Join(opt.arg, ",")
      [] opt.name = "WithLimit" -> Decimal(opt.arg)
      [] opt.name \in {"WithAfter", "WithIDProperty"} -> opt.arg
      [] opt.name = "WithArchived" -> "true"

\* the step applies a recognized option
AppliesRecognizedOption ==
    /\ pc = "options"
    /\ optIdx' = optIdx + 1
    /\ call.opts[optIdx].name \in RecognizedOptions

(* C14: each recognized option writes exactly its own query key with the   *)
(* stated value: properties, propertiesWithHistory and associations the    *)
(* comma-joined list in the given order, limit(n) the decimal string of n, *)
(* after(cursor) the cursor, idProperty(name) the name, archived() "true"; *)
(* it changes nothing else of the request.                                 *)
OptionWritesItsKey ==
    [][AppliesRecognizedOption =>
          LET opt == call.opts[optIdx]
              key == StatedKey(opt)
          IN  /\ DOMAIN req'.Query = (DOMAIN req.Query) \cup {key}
              /\ req'.Query[key] = StatedValue(opt)
              /\ \A k \in (DOMAIN req.Query) \ {key} :
                    req'.Query[k] = req.Query[k]
              /\ [req' EXCEPT !.Query = req.Query] = req]_vars

\* a property list and a limit were applied and are in the query as text
PropertiesAndLimitWritten ==
    /\ OptionsApplied
    /\ Len(call.opts) = 2
    /\ call.opts[1].name = "WithProperties"
    /\ call.opts[1].arg = <<"name", "industry">>
    /\ call.opts[2].name = "WithLimit"
    /\ call.opts[2].arg = 10
    /\ req.Query["properties"] = "name,industry"
    /\ req.Query["limit"] = "10"

\* the archived option is among the options the loop has applied so far
ArchivedApplied ==
    \E i \in 1..(optIdx - 1) : call.opts[i].name = "WithArchived"

(* C15: after any sequence of options the request's archived query         *)
(* parameter is either absent or "true": it is "true" exactly when the     *)
(* archived option was applied at least once, and no option sequence       *)
(* produces archived = "false".                                            *)
ArchivedIsTrueOrAbsent ==
    pc \in {"options", "returning", "done"} =>
        /\ ("archived" \in DOMAIN req.Query) <=> ArchivedApplied
        /\ "archived" \in DOMAIN req.Query => req.Query["archived"] = "true"

\* the archived option was applied twice and the flag reads "true"
ArchivedTwiceStillTrue ==
    /\ OptionsApplied
    /\ Len(call.opts) = 2
    /\ call.opts[1].name = "WithArchived"
    /\ call.opts[2].name = "WithArchived"
    /\ req.Query["archived"] = "true"

\* the call returned a batch result that reports item errors
ReturnedBatchResult ==
    Returned /\ MethodOf(call.m).result = "batchFull" /\ HasResult

\* the server kept its side: the body lists as many item errors as it counts
ServerCountsItsErrors ==
    wire.body.json = "data" => Len(wire.body.errors) = wire.body.numErrors

---------------------------------------------------------------------------
(* The dispatcher serving one request: Client.Do with its rate limiter,    *)
(* its retry policy and the caller's context                               *)

\* the most attempts a retry policy can be configured with
MaxAttempts == 3

\* the capacity of the rate limiter's token budget
MaxTokens == 2

Verbs == {"GET", "POST", "PATCH", "PUT", "DELETE"}

\* the error Do returns when the caller's context is cancelled
CanceledError == TextError("context canceled")

\* what one network request of the dispatcher can end in
DoOutcomes ==
    {[kind |-> "transport"]}
    \cup {[kind |-> "http", status |-> s, category |-> "", message |-> "",
           body |-> Nil] : s \in {404, 429, 500, 503}}
    \cup {[kind |-> "http", status |-> 200, category |-> "", message |-> "",
           body |-> EmptyBody]}

\* a failure worth another attempt: 429 or 5xx
Transient(w) == w.kind = "http" /\ (w.status = 429 \/ w.status >= 500)

\* a policy that takes every request for idempotent
IdempotentWhateverVerb(d) == TRUE

\* a request that may be sent twice: anything but a POST without an explicit
\* idempotency marker
Idempotent(d) == d.verb # "POST" \/ d.marker

\* a policy that retries whether or not retry is enabled
ShouldRetryIgnoringSwitch(d, w) ==
    /\ Idempotent(d)
    /\ Transient(w)
    /\ d.attempts < d.maxAttempts

\* a policy that allows one attempt more than configured
ShouldRetryOnceMore(d, w) ==
    /\ d.retry
    /\ Idempotent(d)
    /\ Transient(w)
    /\ d.attempts <= d.maxAttempts

\* the retry policy: after outcome w of an attempt, make another one
ShouldRetry(d, w) ==
    /\ d.retry
    /\ Idempotent(d)
    /\ Transient(w)
    /\ d.attempts < d.maxAttempts

\* a dispatcher that notices cancellation only between attempts
ObservesCancelBetweenAttempts(d) == d.pc \in {"acquire", "backoff"}

\* where a pending call notices that its context is cancelled: waiting for
\* budget, with the request in flight, and backing off
ObservesCancel(d) == d.pc \in {"acquire", "inflight", "backoff"}

InitDo ==
    /\ Idle
    /\ cls = Nil
    /\ bat = Nil
    /\ lim = Nil
    /\ conc = Nil
    /\ disp \in [pc : {"acquire"}, verb : Verbs, marker : BOOLEAN,
                 retry : BOOLEAN, rateLimit : BOOLEAN,
                 maxAttempts : 1..MaxAttempts, tokens : 0..MaxTokens,
                 cancelled : BOOLEAN, attempts : {0}, last : {Nil},
                 ret : {Nil}]

\* budget is there (or no rate limit is set): the request goes out
DoSend ==
    /\ disp.pc = "acquire"
    /\ ~disp.cancelled
    /\ disp.rateLimit => disp.tokens > 0
    /\ disp' = [disp EXCEPT
                  !.pc = "inflight",
                  !.attempts = @ + 1,
                  !.tokens = IF disp.rateLimit THEN @ - 1 ELSE @]
    /\ UNCHANGED <<callVars, cls, bat, lim, conc>>

\* the request in flight ends; the dispatcher returns or goes for a retry
DoReceive ==
    /\ disp.pc = "inflight"
    /\ ~disp.cancelled
    /\ \E w \in DoOutcomes :
          disp' = IF ShouldRetry(disp, w)
                  THEN [disp EXCEPT !.pc = "backoff", !.last = w]
                  ELSE [disp EXCEPT !.pc = "returned", !.last = w,
                                    !.ret = Do(w)]
    /\ UNCHANGED <<callVars, cls, bat, lim, conc>>

\* the backoff delay is over
DoBackoffOver ==
    /\ disp.pc = "backoff"
    /\ ~disp.cancelled
    /\ disp' = [disp EXCEPT !.pc = "acquire"]
    /\ UNCHANGED <<callVars, cls, bat, lim, conc>>

\* the pending call finds its context cancelled and returns
DoAbort ==
    /\ ObservesCancel(disp)
    /\ disp.cancelled
    /\ disp' = [disp EXCEPT !.pc = "returned",
                            !.ret = [resp |-> Nil, err |-> CanceledError]]
    /\ UNCHANGED <<callVars, cls, bat, lim, conc>>

\* the caller cancels the context
Cancel ==
    /\ disp.pc # "returned"
    /\ ~disp.cancelled
    /\ disp' = [disp EXCEPT !.cancelled = TRUE]
    /\ UNCHANGED <<callVars, cls, bat, lim, conc>>

\* time passes and the rate limiter's budget grows
Refill ==
    /\ disp.pc # "returned"
    /\ disp.rateLimit
    /\ disp.tokens < MaxTokens
    /\ disp' = [disp EXCEPT !.tokens = @ + 1]
    /\ UNCHANGED <<callVars, cls, bat, lim, conc>>

NextDo ==
    \/ DoSend
    \/ DoReceive
    \/ DoBackoffOver
    \/ DoAbort
    \/ Cancel
    \/ Refill

SpecDo == InitDo /\ [][NextDo]_vars

\* the call's own steps are taken when they can be, and time passes
SpecDoFair ==
    /\ SpecDo
    /\ WF_vars(DoSend)
    /\ WF_vars(DoReceive)
    /\ WF_vars(DoBackoffOver)
    /\ WF_vars(DoAbort)
    /\ WF_vars(Refill)

\* Do has returned to its caller
DoReturned == disp.pc = "returned"

\* the last attempt ended in a failure: no response, or a status outside 2xx
LastFailed ==
    /\ disp.last # Nil
    /\ (disp.last.kind = "transport" \/ ~Is2xx(disp.last.status))

\* the last attempt ended in a transient failure
LastTransient == disp.last # Nil /\ Transient(disp.last)

(* C17: with retry disabled every call issues at most one network request, *)
(* whatever its outcome (2xx, 429, 5xx or transport failure), and a        *)
(* failure of that single attempt is returned to the caller.               *)
NoRetryMeansOneAttempt ==
    ~disp.retry =>
        /\ disp.attempts <= 1
        /\ (DoReturned /\ LastFailed) =>
              /\ disp.ret.err # Nil
              /\ disp.ret = Do(disp.last)

\* without retry a 429 was returned after the one attempt
RateLimitedOnceReturned ==
    /\ ~disp.retry
    /\ DoReturned
    /\ disp.attempts = 1
    /\ LastFailed
    /\ disp.last.kind = "http"
    /\ disp.last.status = 429
    /\ disp.ret.err.Status = 429

\* retry is enabled and the request may be sent again
RetryingIdempotent == disp.retry /\ Idempotent(disp)

(* C18: with retry enabled, an idempotent call against a server that keeps *)
(* answering with a transient failure (429 or 5xx) is attempted at most    *)
(* the configured number of times and then returns an error; the call      *)
(* always terminates.                                                      *)
BoundedRetryTerminates ==
    /\ [](RetryingIdempotent => disp.attempts <= disp.maxAttempts)
    /\ []((RetryingIdempotent /\ DoReturned /\ LastTransient)
            => disp.ret.err # Nil)
    /\ (RetryingIdempotent ~> DoReturned)

\* every configured attempt was used up on transient failures and the last
\* failure was returned
AllAttemptsUsedUp ==
    /\ RetryingIdempotent
    /\ DoReturned
    /\ disp.maxAttempts = 3
    /\ disp.attempts = 3
    /\ LastTransient
    /\ disp.last.status = 503
    /\ disp.ret.err.Status = 503

(* C19: even with retry enabled, a POST call without an explicit           *)
(* idempotency marker issues at most one network request; a transient      *)
(* failure of that request is returned without a second attempt.           *)
PostWithoutMarkerSentOnce ==
    (disp.retry /\ disp.verb = "POST" /\ ~disp.marker) =>
        /\ disp.attempts <= 1
        /\ (DoReturned /\ LastTransient) =>
              /\ disp.ret.err # Nil
              /\ disp.ret = Do(disp.last)

\* a POST without marker failed with 500 under a policy of three attempts
\* and was returned after the first
PostFailedOnceReturned ==
    /\ disp.retry
    /\ disp.verb = "POST"
    /\ ~disp.marker
    /\ disp.maxAttempts = 3
    /\ DoReturned
    /\ disp.attempts = 1
    /\ LastTransient
    /\ disp.last.status = 500
    /\ disp.ret.err.Status = 500

(* C20: once the caller's context is cancelled, a pending call, whether it *)
(* is waiting for rate-limit budget or has its network request in flight,  *)
(* eventually returns a cancellation error and issues no further network   *)
(* request.                                                                *)
CancelledCallReturns ==
    /\ [][disp.cancelled => disp'.attempts = disp.attempts]_vars
    /\ (disp.cancelled /\ ~DoReturned)
          ~> (DoReturned /\ disp.ret.err = CanceledError)

\* a call was cancelled with its first request in flight and returned the
\* cancellation error
AbortedInFlight ==
    /\ DoReturned
    /\ disp.cancelled
    /\ disp.attempts = 1
    /\ disp.last = Nil
    /\ disp.ret.err = CanceledError

---------------------------------------------------------------------------
(* The rate limiter of one client under concurrent callers *)

\* the callers that use one client at the same time
MaxCallers == 2

\* the calls each of them makes
MaxCalls == 2

Callers == 1..MaxCallers

\* a limiter that lets every call through
HasBudgetAlways(l) == TRUE

\* the limiter lets a call through: it is disabled, or a token is left
HasBudget(l) == ~l.enabled \/ l.tokens > 0

InitLimiter ==
    /\ Idle
    /\ cls = Nil
    /\ bat = Nil
    /\ disp = Nil
    /\ conc = Nil
    /\ \E enabled \in BOOLEAN, t \in 0..MaxTokens :
          lim = [enabled |-> enabled, tokens |-> t, granted |-> t, sent |-> 0,
                 at |-> [c \in Callers |-> "acquire"],
                 calls |-> [c \in Callers |-> 1]]

\* caller c passes the limiter, taking a token, and its request goes out
LimSend(c) ==
    /\ lim.at[c] = "acquire"
    /\ HasBudget(lim)
    /\ lim' = [lim EXCEPT
                 !.at[c] = "inflight",
                 !.sent = @ + 1,
                 !.tokens = IF lim.enabled THEN @ - 1 ELSE @]
    /\ UNCHANGED <<callVars, cls, bat, disp, conc>>

\* the request of caller c is answered and its call returns
LimReturn(c) ==
    /\ lim.at[c] = "inflight"
    /\ lim' = [lim EXCEPT !.at[c] = "done"]
    /\ UNCHANGED <<callVars, cls, bat, disp, conc>>

\* caller c makes its next call
LimCallAgain(c) ==
    /\ lim.at[c] = "done"
    /\ lim.calls[c] < MaxCalls
    /\ lim' = [lim EXCEPT !.at[c] = "acquire", !.calls[c] = @ + 1]
    /\ UNCHANGED <<callVars, cls, bat, disp, conc>>

\* time passes: the limiter makes one more token available
LimRefill ==
    /\ lim.enabled
    /\ lim.tokens < MaxTokens
    /\ \E c \in Callers : lim.at[c] # "done" \/ lim.calls[c] < MaxCalls
    /\ lim' = [lim EXCEPT !.tokens = @ + 1, !.granted = @ + 1]
    /\ UNCHANGED <<callVars, cls, bat, disp, conc>>

NextLimiter ==
    \/ \E c \in Callers : LimSend(c)
    \/ \E c \in Callers : LimReturn(c)
    \/ \E c \in Callers : LimCallAgain(c)
    \/ LimRefill

SpecLimiter == InitLimiter /\ [][NextLimiter]_vars

(* C21: with rate limiting enabled and any number of callers issuing calls *)
(* concurrently on one client, the number of network requests issued never *)
(* exceeds the token budget that has been made available; a call that      *)
(* finds no budget waits instead of sending.                               *)
RequestsWithinBudget ==
    /\ [](lim.enabled => lim.sent <= lim.granted)
    /\ [][(lim.enabled /\ lim.tokens = 0) => lim'.sent = lim.sent]_vars

\* the budget is used up: one caller has its request out, the other waits
CallerWaitsForBudget ==
    /\ lim.enabled
    /\ lim.tokens = 0
    /\ lim.sent = lim.granted
    /\ lim.sent > 0
    /\ \E c, d \in Callers : lim.at[c] = "inflight" /\ lim.at[d] = "acquire"

\* the request got no HTTP response
NoResponse == wire # Nil /\ wire.kind = "transport"

(* C22: a call that fails without receiving any HTTP response returns an   *)
(* error of a kind distinct from the structured server error: no transport *)
(* failure is reported as a server error, bare or wrapped in a typed       *)
(* variant, and no non-2xx response is reported as a transport failure.    *)
TransportFailureIsDistinct ==
    Returned =>
        /\ NoResponse =>
              /\ err # Nil
              /\ err.kind = "TransportError"
              /\ ~IsHubSpotError(Underlying(err))
        /\ Non2xx =>
              /\ err # Nil
              /\ err.kind # "TransportError"
              /\ IsHubSpotError(Underlying(err))

\* a lists call that reached no server returned the transport error itself
TransportFailureReturned ==
    /\ Returned
    /\ call.m = "GetListByID"
    /\ NoResponse
    /\ err = TransportError
    /\ result = Nil

\* the step hands the request to the dispatcher
DispatchStep == wire' # wire /\ wire' # Nil

\* the step changes the request of a call in progress
RequestChanges == req' # req /\ pc # "done"

\* the call returned something read from a response body: a decoded result
\* or a parse error
BodyWasParsed ==
    \/ (MethodOf(call.m).result # "void" /\ HasResult)
    \/ (err # Nil /\ err.kind = "errorString"
        /\ Contains(ErrorText(err), "marshal"))

(* C23: in every resource call the steps happen in one fixed order: all    *)
(* options are applied to the request before it is dispatched, the request *)
(* is dispatched exactly once, the body is parsed only after a dispatch    *)
(* that returned no error, and when dispatch returns an error no parsing   *)
(* takes place and the request is not modified after dispatch began.       *)
StepsInFixedOrder ==
    /\ [][DispatchStep =>
            /\ wire = Nil
            /\ pc = "options"
            /\ optIdx > Len(call.opts)]_vars
    /\ [][RequestChanges => (wire = Nil /\ wire' = Nil)]_vars
    /\ [](Returned =>
            /\ wire # Nil
            /\ doErr # Nil =>
                  /\ ~BodyWasParsed
                  /\ err = ReturnedError(call, doErr))

\* a listing with two options was dispatched after both were applied, failed,
\* and returned the error without a result
ListFailedAfterTwoOptions ==
    /\ Returned
    /\ call.m = "ListDeals"
    /\ Len(call.opts) = 2
    /\ call.opts[1].name = "WithLimit"
    /\ call.opts[2].name = "WithAfter"
    /\ DOMAIN req.Query = {"limit", "after"}
    /\ Non2xx
    /\ err = doErr
    /\ result = Nil

---------------------------------------------------------------------------
(* Calls issued concurrently on one resource client.  A request is held   *)
(* by pointer: NewRequest allocates it, the options write through the      *)
(* pointer, Do reads it.  conc.heap holds the requests allocated so far,   *)
(* conc.at[c] the position of caller c in its method.                      *)

\* &Client{apiClient: apiClient}
NewClient(apiClient) == [apiClient |-> apiClient]

\* the configurations an API client is constructed with: the default one,
\* or rate limiting and retries switched off
ApiClients ==
    {[rateLimit |-> TRUE, retry |-> TRUE],
     [rateLimit |-> FALSE, retry |-> FALSE]}

\* the option lists the concurrent callers pass
ConcurrentOptionLists ==
    {<<>>, <<Opt("WithLimit", 10)>>,
     <<Opt("WithAfter", "c1"), Opt("WithLimit", 10)>>}

\* the calls the concurrent callers make
ConcurrentCalls ==
    {c \in Calls("GetDeal") \cup Calls("CreateCompany") :
        c.opts \in ConcurrentOptionLists}

\* a method whose requests all live in the one the first call allocated
FirstRequest(cc, c) == 1

\* req: the local variable of the call of caller c
OwnRequest(cc, c) == cc.at[c].req

InitConcurrent ==
    /\ Idle
    /\ cls = Nil
    /\ bat = Nil
    /\ disp = Nil
    /\ lim = Nil
    /\ \E a \in ApiClients :
          conc = [client |-> NewClient(a),
                  heap |-> <<>>,
                  at |-> [c \in Callers |->
                            [pc |-> "idle", call |-> Nil, req |-> 0,
                             optIdx |-> 0, sent |-> Nil]]]

\* caller c enters a method, which builds a request of its own
ConcStart(c) ==
    /\ conc.at[c].pc = "idle"
    /\ \E k \in ConcurrentCalls :
          conc' = [conc EXCEPT
                     !.heap = Append(@, BuildRequest(k)),
                     !.at[c] = [pc |-> "options", call |-> k,
                                req |-> Len(conc.heap) + 1,
                                optIdx |-> 1, sent |-> Nil]]
    /\ UNCHANGED <<callVars, cls, bat, disp, lim>>

\* opt(req) in the call of caller c
ConcApplyNextOption(c) ==
    LET a == conc.at[c]
        p == OwnRequest(conc, c)
    IN  /\ a.pc = "options"
        /\ ~RangeDone(a.call.opts, a.optIdx)
        /\ conc' = [conc EXCEPT
                      !.heap[p] = ApplyOption(RangeOpts(a.call.opts, a.optIdx),
                                              @),
                      !.at[c].optIdx = @ + 1]
        /\ UNCHANGED <<callVars, cls, bat, disp, lim>>

\* c.apiClient.Do(ctx, req) in the call of caller c: the request goes out as
\* it is at this moment
ConcDispatch(c) ==
    LET a == conc.at[c]
    IN  /\ a.pc = "options"
        /\ RangeDone(a.call.opts, a.optIdx)
        /\ conc' = [conc EXCEPT
                      !.at[c].pc = "dispatched",
                      !.at[c].sent = conc.heap[OwnRequest(conc, c)]]
        /\ UNCHANGED <<callVars, cls, bat, disp, lim>>

\* the call of caller c returns
ConcReturn(c) ==
    /\ conc.at[c].pc = "dispatched"
    /\ conc' = [conc EXCEPT !.at[c].pc = "done"]
    /\ UNCHANGED <<callVars, cls, bat, disp, lim>>

NextConcurrent ==
    \/ \E c \in Callers : ConcStart(c)
    \/ \E c \in Callers : ConcApplyNextOption(c)
    \/ \E c \in Callers : ConcDispatch(c)
    \/ \E c \in Callers : ConcReturn(c)

SpecConcurrent == InitConcurrent /\ [][NextConcurrent]_vars

\* the request a call has after its first n options, run alone
RECURSIVE AfterOptions(_, _)
AfterOptions(k, n) ==
    IF n = 0 THEN BuildRequest(k)
    ELSE ApplyOption(k.opts[n], AfterOptions(k, n - 1))

\* the request of caller c is what its own call made of it so far
RequestIsOwn(c) ==
    LET a == conc.at[c]
    IN  /\ a.pc = "options" =>
              conc.heap[a.req] = AfterOptions(a.call, a.optIdx - 1)
        /\ a.pc \in {"dispatched", "done"} =>
              /\ conc.heap[a.req] = AfterOptions(a.call, Len(a.call.opts))
              /\ a.sent = AfterOptions(a.call, Len(a.call.opts))

(* C24: calls issued concurrently on the same client share no mutable      *)
(* per-call state: each call builds its own request, so under every        *)
(* interleaving the request of a call, and what it dispatches, has the     *)
(* method, path, query parameters and body that the call's own arguments   *)
(* and options give it, and the client's configuration never changes.      *)
CallsShareNoRequest ==
    /\ [](\A c \in Callers : RequestIsOwn(c))
    /\ [](\A c, d \in Callers :
            (c # d /\ conc.at[c].pc # "idle" /\ conc.at[d].pc # "idle")
            => conc.at[c].req # conc.at[d].req)
    /\ [][conc'.client = conc.client]_vars

\* two callers were between building and dispatching at the same time, with
\* different option lists, and both dispatched
InterleavedCallsDispatched ==
    \E c, d \in Callers :
        /\ c # d
        /\ conc.at[c].pc \in {"dispatched", "done"}
        /\ conc.at[d].pc \in {"dispatched", "done"}
        /\ conc.at[c].call.m = "GetDeal"
        /\ conc.at[d].call.m = "CreateCompany"
        /\ Len(conc.at[c].call.opts) = 2
        /\ conc.at[c].req = 1
        /\ conc.at[d].req = 2
        /\ conc.at[c].sent.Query # <<>>
        /\ conc.at[d].sent.Query = <<>>
        /\ conc.at[d].sent.Body # Nil

(* C25: for a server error with status 400 and category VALIDATION_ERROR,  *)
(* the Field of the resulting validation error equals the server error's   *)
(* message.                                                                *)
ValidationFieldIsMessage ==
    (/\ cls.pc = "classified"
     /\ IsHubSpotError(cls.in)
     /\ cls.in.Status = 400
     /\ cls.in.Category = "VALIDATION_ERROR")
    => (/\ cls.out.kind = "ListValidationError"
        /\ cls.out.Field = cls.in.Message)

\* a validation error with the message "name" was classified, and the text
\* of the variant names it as the field
ValidationNamesField ==
    /\ cls.pc = "classified"
    /\ cls.fn = "ParseListError"
    /\ IsHubSpotError(cls.in)
    /\ cls.in.Status = 400
    /\ cls.in.Category = "VALIDATION_ERROR"
    /\ cls.in.Message = "name"
    /\ cls.out.Field = "name"
    /\ ErrorText(cls.out) = "validation error on field name: "

(* C26: when the classifier maps a status-409 server error for a call that *)
(* supplied an identifier, the resulting AlreadyExists error carries that  *)
(* identifier, so that its text names the conflicting resource.            *)
ConflictCarriesIdentifier ==
    (/\ cls.pc = "classified"
     /\ IsHubSpotError(cls.in)
     /\ cls.in.Status = 409
     /\ cls.listID # "")
    => (/\ cls.out.kind = "ListAlreadyExistsError"
        /\ cls.out.ListName = cls.listID
        /\ Contains(ErrorText(cls.out), cls.listID))

(* C27: for every call of GetListsByIDs with list IDs i1..in, each of the n *)
(* IDs is present in the listIds query parameter of the dispatched request. *)
EveryListIDIsSent ==
    (/\ call # Nil
     /\ call.m = "GetListsByIDs"
     /\ wire # Nil)
    => \A i \in 1..Len(call.listIDs) :
          /\ "listIds" \in DOMAIN req.Query
          /\ Contains(req.Query["listIds"], call.listIDs[i])

\* the body is the input, or the wrapper a method puts around its input
CarriesInput(body, input) ==
    \/ body = input
    \/ ("Inputs" \in DOMAIN body /\ body.Inputs = input)
    \/ ("filterBranch" \in DOMAIN body /\ body.filterBranch = input)

(* C28: every resource method that takes an input payload (in particular   *)
(* CreateNewSchema, CreateNewAssociationSchema and UpdateSchema, like       *)
(* CreateCompany and UpdateDeal) dispatches a request whose body is the    *)
(* caller-supplied input.                                                  *)
InputIsTheBody ==
    (/\ call # Nil
     /\ TakesInput(call.m)
     /\ wire # Nil)
    => (/\ req.Body # Nil
        /\ CarriesInput(req.Body, call.input))

(* C29: the record-level classifier maps every status-404 server error to  *)
(* the record NotFound variant carrying the given record ID and list ID,   *)
(* and never to the list NotFound variant; for every other input its       *)
(* result equals the list-level classifier's result for the same error and *)
(* list ID.                                                                *)
RecordClassifierRefinesListClassifier ==
    (cls.pc = "classified" /\ cls.fn = "ParseRecordError") =>
        IF IsHubSpotError(cls.in) /\ cls.in.Status = 404
        THEN /\ cls.out.kind = "RecordNotFoundError"
             /\ cls.out.RecordID = cls.recordID
             /\ cls.out.ListID = cls.listID
             /\ cls.out.Original = cls.in
        ELSE cls.out = ParseListError(cls.in, cls.listID)

\* a 404 for record 42 of list 7 was classified by the record classifier
RecordReportedMissing ==
    /\ cls.pc = "classified"
    /\ cls.fn = "ParseRecordError"
    /\ IsHubSpotError(cls.in)
    /\ cls.in.Status = 404
    /\ cls.recordID = "42"
    /\ cls.listID = "7"
    /\ cls.out.kind = "RecordNotFoundError"
    /\ ErrorText(cls.out) = "record 42 not found in list 7"

\* the step runs the next option of the call on the request
OptionStep == pc = "options" /\ optIdx' = optIdx + 1

(* C30: applying the include-filters option with false leaves the request  *)
(* entirely unchanged (no includeFilters key is added and an existing one  *)
(* is not removed), while applying it with true sets includeFilters="true" *)
(* and changes nothing else; every option changes only query parameters    *)
(* and never the method, path, body or resource-type tag.                  *)
OptionsTouchOnlyTheQuery ==
    [][OptionStep =>
        LET opt == call.opts[optIdx]
        IN  /\ req'.Method = req.Method
            /\ req'.Path = req.Path
            /\ req'.Body = req.Body
            /\ req'.ResourceType = req.ResourceType
            /\ opt.name = "WithIncludeFilters" =>
                  IF opt.arg
                  THEN req'.Query =
                          [k \in (DOMAIN req.Query) \cup {"includeFilters"} |->
                              IF k = "includeFilters" THEN "true"
                              ELSE req.Query[k]]
                  ELSE req' = req]_vars

\* include-filters was applied with true and then with false, and the key
\* written by the first is still there
IncludeFiltersKeptAfterFalse ==
    /\ pc = "options"
    /\ Len(call.opts) = 2
    /\ call.opts[1] = Opt("WithIncludeFilters", TRUE)
    /\ call.opts[2] = Opt("WithIncludeFilters", FALSE)
    /\ optIdx = 3
    /\ "includeFilters" \in DOMAIN req.Query
    /\ req.Query["includeFilters"] = "true"

====
